---- MODULE Spec2Model ----
(***************************************************************************)
(* Model of todo_app_with_dates.py: the task store (load/save, id          *)
(* generation, add, toggle, delete, edit), the date normaliser parse_date  *)
(* and the menu loop that dispatches to them.                              *)
(*                                                                         *)
(* Text is modelled as a sequence of one-character strings, so that        *)
(* str.strip, str.lower, int(), strptime and isoformat are computed.       *)
(***************************************************************************)
EXTENDS Integers, Sequences, FiniteSets, TLC

\* ------------------------------------------------------------------ bounds
MaxTasks == 2        \* add_task is not offered beyond this many tasks
MaxClock == 2        \* add_task stamps at most this many tasks in a session
TicksPerDay == 2     \* clock readings per calendar day

\* ------------------------------------------------------- text primitives
Digits == <<"0", "1", "2", "3", "4", "5", "6", "7", "8", "9">>
UpperCase == <<"A", "B", "C", "D", "E", "F", "G", "H", "I", "J", "K", "L", "M",
               "N", "O", "P", "Q", "R", "S", "T", "U", "V", "W", "X", "Y", "Z">>
LowerCase == <<"a", "b", "c", "d", "e", "f", "g", "h", "i", "j", "k", "l", "m",
               "n", "o", "p", "q", "r", "s", "t", "u", "v", "w", "x", "y", "z">>

IsSpace(c) == c = " "
\* the value of every decimal digit
DigitValOf ==
    [c \in {Digits[i] : i \in 1..10} |-> (CHOOSE i \in 1..10 : Digits[i] = c) - 1]
DigitSet == DOMAIN DigitValOf
IsDigit(c) == c \in DigitSet
DigitVal(c) == DigitValOf[c]
DigitChar(n) == Digits[n + 1]

\* the lower-case letter of every upper-case one
LowerOf ==
    [c \in {UpperCase[i] : i \in 1..26} |-> LowerCase[CHOOSE i \in 1..26 : UpperCase[i] = c]]

UpperSet == DOMAIN LowerOf

\* str.lower on one character
lower_char(c) == IF c \in UpperSet THEN LowerOf[c] ELSE c

\* lower, had the call been left out
lower_omitted(s) == s

\* str.lower
lower(s) == [i \in 1..Len(s) |-> lower_char(s[i])]

RECURSIVE lstrip(_)
lstrip(s) == IF s # <<>> /\ IsSpace(Head(s)) THEN lstrip(Tail(s)) ELSE s

RECURSIVE rstrip(_)
rstrip(s) ==
    IF s # <<>> /\ IsSpace(s[Len(s)]) THEN rstrip(SubSeq(s, 1, Len(s) - 1)) ELSE s

\* strip, had the call been left out
strip_omitted(s) == s

\* str.strip
strip(s) == rstrip(lstrip(s))

\* the decimal text of n, zero-padded to w characters (format spec 0wd)
RECURSIVE ZeroPad(_, _)
ZeroPad(n, w) ==
    IF w = 0 THEN <<>> ELSE ZeroPad(n \div 10, w - 1) \o <<DigitChar(n % 10)>>

\* the number written by a sequence of digit characters
RECURSIVE DigitsVal(_)
DigitsVal(s) ==
    IF s = <<>> THEN 0
    ELSE 10 * DigitsVal(SubSeq(s, 1, Len(s) - 1)) + DigitVal(s[Len(s)])

AllDigits(s) == \A i \in 1..Len(s) : IsDigit(s[i])

\* int(text): surrounding whitespace is ignored, an optional sign, then
\* decimal digits; anything else raises ValueError
ValueError == [error |-> "ValueError"]
py_int(text) ==
    LET s == strip(text)
        signed == s # <<>> /\ s[1] \in {"-", "+"}
        body == IF signed THEN Tail(s) ELSE s
    IN  IF body = <<>> \/ ~AllDigits(body) THEN ValueError
        ELSE [error |-> "none",
              value |-> IF signed /\ s[1] = "-" THEN 0 - DigitsVal(body)
                        ELSE DigitsVal(body)]

\* ------------------------------------------------------------ calendar
IsLeap(y) == (y % 4 = 0 /\ y % 100 # 0) \/ y % 400 = 0

DaysInMonth(y, m) ==
    IF m = 2 THEN (IF IsLeap(y) THEN 29 ELSE 28)
    ELSE IF m \in {4, 6, 9, 11} THEN 30 ELSE 31

\* datetime(y, m, d) raises ValueError outside these ranges
ValidDate(y, m, d) ==
    /\ y \in 1..9999
    /\ m \in 1..12
    /\ d \in 1..DaysInMonth(y, m)

\* date.isoformat
isoformat(dt) == ZeroPad(dt.y, 4) \o <<"-">> \o ZeroPad(dt.m, 2) \o <<"-">> \o ZeroPad(dt.d, 2)

\* --------------------------------------------------- datetime.strptime
\* locale_time.a_month[1:] and locale_time.f_month[1:], lower-cased
a_month == <<<<"j", "a", "n">>,
            <<"f", "e", "b">>,
            <<"m", "a", "r">>,
            <<"a", "p", "r">>,
            <<"m", "a", "y">>,
            <<"j", "u", "n">>,
            <<"j", "u", "l">>,
            <<"a", "u", "g">>,
            <<"s", "e", "p">>,
            <<"o", "c", "t">>,
            <<"n", "o", "v">>,
            <<"d", "e", "c">>>>
f_month == <<<<"j", "a", "n", "u", "a", "r", "y">>,
            <<"f", "e", "b", "r", "u", "a", "r", "y">>,
            <<"m", "a", "r", "c", "h">>,
            <<"a", "p", "r", "i", "l">>,
            <<"m", "a", "y">>,
            <<"j", "u", "n", "e">>,
            <<"j", "u", "l", "y">>,
            <<"a", "u", "g", "u", "s", "t">>,
            <<"s", "e", "p", "t", "e", "m", "b", "e", "r">>,
            <<"o", "c", "t", "o", "b", "e", "r">>,
            <<"n", "o", "v", "e", "m", "b", "e", "r">>,
            <<"d", "e", "c", "e", "m", "b", "e", "r">>>>

\* the order in which __seqToRE lists the names: longest first
RECURSIVE InsertByLen(_, _, _)
InsertByLen(names, order, i) ==
    IF order = <<>> THEN <<i>>
    ELSE IF Len(names[Head(order)]) >= Len(names[i])
         THEN <<Head(order)>> \o InsertByLen(names, Tail(order), i)
         ELSE <<i>> \o order

RECURSIVE SortByLen(_, _)
SortByLen(names, k) ==
    IF k = 0 THEN <<>> ELSE InsertByLen(names, SortByLen(names, k - 1), k)

seqToRE(names) == SortByLen(names, Len(names))

\* the alternations TimeRE.__init__ builds for %b and %B
b_order == seqToRE(a_month)
B_order == seqToRE(f_month)

\* an alternation split by first letter: for every letter, the names that
\* begin with it, in the order of the alternation (no other name can match
\* a text that begins with that letter)
ByFirst(names, order) ==
    [c \in {LowerCase[i] : i \in 1..26} |->
        LET Begins(k) == names[k][1] = c
        IN  SelectSeq(order, Begins)]
b_first == ByFirst(a_month, b_order)
B_first == ByFirst(f_month, B_order)
LowerSet == DOMAIN b_first

\* Formats, had the numeric formats put the month first
Formats_month_first == <<
    <<"%Y", "-", "%m", "-", "%d">>,
    <<"%m", "/", "%d", "/", "%Y">>,
    <<"%m", "-", "%d", "-", "%Y">>,
    <<"%b", " ", "%d", " ", "%Y">>,
    <<"%B", " ", "%d", " ", "%Y">>,
    <<"%d", " ", "%b", " ", "%Y">>,
    <<"%d", " ", "%B", " ", "%Y">> >>

\* the strptime formats of parse_date; an element is a directive, a literal
\* character, or " " for the whitespace run that the format's blank becomes
Formats == <<
    <<"%Y", "-", "%m", "-", "%d">>,
    <<"%d", "/", "%m", "/", "%Y">>,
    <<"%d", "-", "%m", "-", "%Y">>,
    <<"%b", " ", "%d", " ", "%Y">>,
    <<"%B", " ", "%d", " ", "%Y">>,
    <<"%d", " ", "%b", " ", "%Y">>,
    <<"%d", " ", "%B", " ", "%Y">> >>

CharIn(s, p, set) == p <= Len(s) /\ s[p] \in set
DigitAt(s, p) == p <= Len(s) /\ IsDigit(s[p])
NonZero == {"1", "2", "3", "4", "5", "6", "7", "8", "9"}

\* one alternative of a directive's regular expression, matched at p:
\* a one-element sequence holding the match, or the empty sequence
Alt(cond, n, key, val) == IF cond THEN <<[n |-> n, key |-> key, val |-> val]>> ELSE <<>>

\* name matches at p, letter case ignored (re.IGNORECASE)
NameAt(s, p, name) ==
    /\ p + Len(name) - 1 <= Len(s)
    /\ \A i \in 1..Len(name) : lower_char(s[p + i - 1]) = name[i]

RECURSIVE MonthAlts(_, _, _, _, _)
MonthAlts(names, order, k, s, p) ==
    IF k > Len(order) THEN <<>>
    ELSE Alt(NameAt(s, p, names[order[k]]), Len(names[order[k]]), "m", order[k])
         \o MonthAlts(names, order, k + 1, s, p)

\* the alternation of month names matched at p
MonthAt(names, first, s, p) ==
    IF p <= Len(s) /\ lower_char(s[p]) \in LowerSet
    THEN MonthAlts(names, first[lower_char(s[p])], 1, s, p)
    ELSE <<>>

RECURSIVE SpaceRun(_, _)
SpaceRun(s, p) == IF p <= Len(s) /\ IsSpace(s[p]) THEN 1 + SpaceRun(s, p + 1) ELSE 0

\* \s+ is greedy: the longest run first, then shorter ones
RECURSIVE SpaceAlts(_)
SpaceAlts(n) == IF n = 0 THEN <<>> ELSE <<[n |-> n, key |-> "", val |-> 0]>> \o SpaceAlts(n - 1)

\* the matches of one format element at position p, in the order the
\* regular expression tries them (TimeRE.__init__)
Alternatives(e, s, p) ==
    IF e = "%Y" THEN
        Alt(\A i \in 0..3 : DigitAt(s, p + i), 4, "Y",
            DigitsVal(SubSeq(s, p, p + 3)))
    ELSE IF e = "%m" THEN
        Alt(CharIn(s, p, {"1"}) /\ CharIn(s, p + 1, {"0", "1", "2"}), 2, "m",
            DigitsVal(SubSeq(s, p, p + 1)))
        \o Alt(CharIn(s, p, {"0"}) /\ CharIn(s, p + 1, NonZero), 2, "m",
               DigitsVal(SubSeq(s, p, p + 1)))
        \o Alt(CharIn(s, p, NonZero), 1, "m", DigitsVal(SubSeq(s, p, p)))
    ELSE IF e = "%d" THEN
        Alt(CharIn(s, p, {"3"}) /\ CharIn(s, p + 1, {"0", "1"}), 2, "d",
            DigitsVal(SubSeq(s, p, p + 1)))
        \o Alt(CharIn(s, p, {"1", "2"}) /\ DigitAt(s, p + 1), 2, "d",
               DigitsVal(SubSeq(s, p, p + 1)))
        \o Alt(CharIn(s, p, {"0"}) /\ CharIn(s, p + 1, NonZero), 2, "d",
               DigitsVal(SubSeq(s, p, p + 1)))
        \o Alt(CharIn(s, p, NonZero), 1, "d", DigitsVal(SubSeq(s, p, p)))
        \o Alt(CharIn(s, p, {" "}) /\ CharIn(s, p + 1, NonZero), 2, "d",
               DigitsVal(SubSeq(s, p + 1, p + 1)))
    ELSE IF e = "%b" THEN MonthAt(a_month, b_first, s, p)
    ELSE IF e = "%B" THEN MonthAt(f_month, B_first, s, p)
    ELSE IF e = " " THEN SpaceAlts(SpaceRun(s, p))
    ELSE Alt(CharIn(s, p, {e}), 1, "", 0)

\* the groups found so far, with one more
SetGroup(g, a) ==
    IF a.key = "Y" THEN [g EXCEPT !.Y = a.val]
    ELSE IF a.key = "m" THEN [g EXCEPT !.m = a.val]
    ELSE IF a.key = "d" THEN [g EXCEPT !.d = a.val]
    ELSE g

\* format_regex.match(data_string): every way the format matches a prefix of
\* s from position p on, in backtracking order; the first one is re's match
RECURSIVE re_match(_, _, _, _, _)
RECURSIVE re_try(_, _, _, _, _, _)
re_match(fmt, k, s, p, g) ==
    IF k > Len(fmt) THEN <<[end |-> p, g |-> g]>>
    ELSE re_try(Alternatives(fmt[k], s, p), fmt, k, s, p, g)

re_try(alts, fmt, k, s, p, g) ==
    IF alts = <<>> THEN <<>>
    ELSE re_match(fmt, k + 1, s, p + Head(alts).n, SetGroup(g, Head(alts)))
         \o re_try(Tail(alts), fmt, k, s, p, g)

\* datetime.strptime(data_string, fmt): ValueError when the format does not
\* match, when unconverted data remains, or when the fields are no date
strptime_found(s, found) ==
    IF found = <<>> THEN ValueError
    ELSE IF Head(found).end # Len(s) + 1 THEN ValueError
    ELSE LET g == Head(found).g
         IN  IF ValidDate(g.Y, g.m, g.d)
             THEN [error |-> "none", value |-> [y |-> g.Y, m |-> g.m, d |-> g.d]]
             ELSE ValueError

strptime(s, fmt) ==
    strptime_found(s, re_match(fmt, 1, s, 1, [Y |-> 0, m |-> 0, d |-> 0]))

\* datetime.fromisoformat(date_string), then .date(): YYYY-MM-DD, alone or
\* followed by one separator character and HH, HH:MM or HH:MM:SS (the forms
\* every Python 3 release with fromisoformat accepts)
TwoDigitsAt(s, p) == DigitAt(s, p) /\ DigitAt(s, p + 1)
fromisoformat(s) ==
    LET dateOk == /\ Len(s) >= 10
                  /\ \A i \in {1, 2, 3, 4, 6, 7, 9, 10} : IsDigit(s[i])
                  /\ s[5] = "-" /\ s[8] = "-"
        y == DigitsVal(SubSeq(s, 1, 4))
        m == DigitsVal(SubSeq(s, 6, 7))
        d == DigitsVal(SubSeq(s, 9, 10))
        t == SubSeq(s, 12, Len(s))
        timeOk == \/ Len(s) = 10
                  \/ /\ Len(t) \in {2, 5, 8}
                     /\ TwoDigitsAt(t, 1) /\ DigitsVal(SubSeq(t, 1, 2)) < 24
                     /\ Len(t) >= 5 =>
                            t[3] = ":" /\ TwoDigitsAt(t, 4) /\ DigitsVal(SubSeq(t, 4, 5)) < 60
                     /\ Len(t) = 8 =>
                            t[6] = ":" /\ TwoDigitsAt(t, 7) /\ DigitsVal(SubSeq(t, 7, 8)) < 60
    IN  IF dateOk /\ timeOk /\ ValidDate(y, m, d)
        THEN [error |-> "none", value |-> [y |-> y, m |-> m, d |-> d]]
        ELSE ValueError

\* ------------------------------------------------------------ parse_date
\* try: return dt.date().isoformat(), and what the except clause leads to
date_or(dt, otherwise) ==
    IF dt.error = "none" THEN isoformat(dt.value) ELSE otherwise

\* the loop over the formats from the k-th on, then the last resort
RECURSIVE try_formats(_, _)
try_formats(date_str, k) ==
    IF k > Len(Formats) THEN date_or(fromisoformat(date_str), <<>>)
    ELSE date_or(strptime(date_str, Formats[k]), try_formats(date_str, k + 1))

\* parse_date, had it handed back the text it could not parse
parse_date_raw(date_str) ==
    IF date_str = <<>> THEN <<>>
    ELSE LET found == try_formats(strip(date_str), 1)
         IN  IF found # <<>> THEN found ELSE strip(date_str)

\* parse_date(date_str): the ISO date text, or the empty text
parse_date(date_str) ==
    IF date_str = <<>> THEN <<>>
    ELSE try_formats(strip(date_str), 1)

\* ----------------------------------------------------- the JSON file
\* The content of todo_data.json is a JSON document tree (what json.dump
\* writes up to whitespace), or undecodable text, or the file is absent.
\* A tree node is [t |-> type, v |-> payload]; an object's payload is the
\* sequence of its <<key, node>> members in written order.
Absent == [kind |-> "absent"]
Undecodable == [kind |-> "undecodable"]
\* a file that exists but that open() or f.read() cannot deliver
Unreadable == [kind |-> "unreadable"]
Text(doc) == [kind |-> "text", doc |-> doc]

JNum(n) == [t |-> "number", v |-> n]
JStr(s) == [t |-> "string", v |-> s]
JBool(b) == [t |-> IF b THEN "true" ELSE "false", v |-> 0]

\* dump_task, had it written an empty due date the way show_tasks prints it
dump_task_labelled(task) ==
    [t |-> "object",
     v |-> << <<"id", JNum(task.id)>>,
              <<"title", JStr(task.title)>>,
              <<"due_date", JStr(IF task.due_date = <<>>
                                 THEN <<"N", "o", " ", "d", "u", "e", " ", "d", "a", "t", "e">>
                                 ELSE task.due_date)>>,
              <<"completed", JBool(task.completed)>>,
              <<"created_at", JStr(task.created_at)>> >>]

\* json.dump of one task dict: its members in insertion order
dump_task(task) ==
    [t |-> "object",
     v |-> << <<"id", JNum(task.id)>>,
              <<"title", JStr(task.title)>>,
              <<"due_date", JStr(task.due_date)>>,
              <<"completed", JBool(task.completed)>>,
              <<"created_at", JStr(task.created_at)>> >>]

\* json.dump(tasks, f, ensure_ascii=False, indent=2)
json_dump(tasks) ==
    [t |-> "array", v |-> [i \in 1..Len(tasks) |-> dump_task(tasks[i])]]

\* the value of the last member of an object with key k
RECURSIVE member(_, _)
member(pairs, k) ==
    IF pairs[Len(pairs)][1] = k THEN pairs[Len(pairs)][2]
    ELSE member(SubSeq(pairs, 1, Len(pairs) - 1), k)

\* json.load of a document tree: list, dict, int, str, bool
RECURSIVE json_load(_)
json_load(node) ==
    IF node.t = "array" THEN [i \in 1..Len(node.v) |-> json_load(node.v[i])]
    ELSE IF node.t = "object"
         THEN [k \in {node.v[i][1] : i \in 1..Len(node.v)} |-> json_load(member(node.v, k))]
    ELSE IF node.t = "true" THEN TRUE
    ELSE IF node.t = "false" THEN FALSE
    ELSE node.v

\* the Python type of what json.load makes of a document tree
py_type(node) ==
    IF node.t = "array" THEN "list"
    ELSE IF node.t = "object" THEN "dict"
    ELSE IF node.t \in {"true", "false"} THEN "bool"
    ELSE IF node.t = "number" THEN "int"
    ELSE "str"

\* the exception open() or f.read() raises on a file it cannot deliver;
\* load_tasks has no handler for it
OSError == [error |-> "OSError"]

\* load_tasks(): [] when the file is absent or json.load raises JSONDecodeError
load_tasks(f) ==
    IF f.kind = "absent" THEN <<>>
    ELSE IF f.kind = "undecodable" THEN <<>>
    ELSE IF f.kind = "unreadable" THEN OSError
    ELSE json_load(f.doc)

\* how load_tasks() ends: the type of the value it returns, or "raised"
load_tasks_type(f) ==
    IF f.kind \in {"absent", "undecodable"} THEN "list"
    ELSE IF f.kind = "unreadable" THEN "raised"
    ELSE py_type(f.doc)

\* save_tasks(tasks): the file is rewritten in full
save_tasks(tasks) == Text(json_dump(tasks))

\* ------------------------------------------------------------ the clock
\* datetime.now(): reading number n of the clock falls on the day
\* n \div TicksPerDay after the first one, at an hour given by n % TicksPerDay
FirstDay == [y |-> 2025, m |-> 11, d |-> 11]

RECURSIVE AddDays(_, _)
AddDays(dt, k) ==
    IF k = 0 THEN dt
    ELSE IF dt.d < DaysInMonth(dt.y, dt.m) THEN AddDays([dt EXCEPT !.d = dt.d + 1], k - 1)
    ELSE IF dt.m < 12 THEN AddDays([dt EXCEPT !.m = dt.m + 1, !.d = 1], k - 1)
    ELSE AddDays([y |-> dt.y + 1, m |-> 1, d |-> 1], k - 1)

datetime_now(n) ==
    [date |-> AddDays(FirstDay, n \div TicksPerDay), hour |-> 9 + (n % TicksPerDay)]

\* datetime.isoformat
datetime_isoformat(dt) ==
    isoformat(dt.date) \o <<"T">> \o ZeroPad(dt.hour, 2)
        \o <<":", "0", "0", ":", "0", "0">>

\* ------------------------------------------------------- store helpers
\* py_max, had it taken the id of the newest task for the largest
py_max_newest(ids) == ids[Len(ids)]

\* max(ids) as the built-in computes it: a left-to-right running maximum
RECURSIVE py_max(_)
py_max(ids) ==
    IF Len(ids) = 1 THEN ids[1]
    ELSE LET rest == py_max(SubSeq(ids, 1, Len(ids) - 1))
         IN  IF ids[Len(ids)] > rest THEN ids[Len(ids)] ELSE rest

\* task.get("id", 0)
get_id(task) == IF "id" \in DOMAIN task THEN task.id ELSE 0

\* generate_id, had it counted the tasks instead
generate_id_count(tasks) == Len(tasks) + 1

\* generate_id, had it handed out the smallest id not in use
generate_id_free(tasks) ==
    CHOOSE k \in 1..(Len(tasks) + 1) :
        /\ \A i \in 1..Len(tasks) : get_id(tasks[i]) # k
        /\ \A j \in 1..(k - 1) : \E i \in 1..Len(tasks) : get_id(tasks[i]) = j

\* generate_id(tasks)
generate_id(tasks) ==
    IF tasks = <<>> THEN 1
    ELSE py_max([i \in 1..Len(tasks) |-> get_id(tasks[i])]) + 1

\* find_task_by_id, had it fallen back to the first task
find_task_by_id_first(tasks, task_id) ==
    IF \E i \in 1..Len(tasks) : get_id(tasks[i]) = task_id
    THEN CHOOSE i \in 1..Len(tasks) :
            /\ get_id(tasks[i]) = task_id
            /\ \A j \in 1..(i - 1) : get_id(tasks[j]) # task_id
    ELSE IF tasks = <<>> THEN 0 ELSE 1

\* find_task_by_id(tasks, task_id): the position of the first task with the
\* id (the function returns a reference to that element), 0 for None
find_task_by_id(tasks, task_id) ==
    IF \E i \in 1..Len(tasks) : get_id(tasks[i]) = task_id
    THEN CHOOSE i \in 1..Len(tasks) :
            /\ get_id(tasks[i]) = task_id
            /\ \A j \in 1..(i - 1) : get_id(tasks[j]) # task_id
    ELSE 0

\* list.remove, had the task been taken out by moving the last one into
\* its place (seq[i] = seq[-1]; seq.pop())
list_remove_swap(seq, x) ==
    LET i == CHOOSE i \in 1..Len(seq) :
                seq[i] = x /\ \A j \in 1..(i - 1) : seq[j] # x
    IN  IF i = Len(seq) THEN SubSeq(seq, 1, Len(seq) - 1)
        ELSE SubSeq([seq EXCEPT ![i] = seq[Len(seq)]], 1, Len(seq) - 1)

\* list.remove(x): drops the first element equal to x
list_remove(seq, x) ==
    LET i == CHOOSE i \in 1..Len(seq) :
                seq[i] = x /\ \A j \in 1..(i - 1) : seq[j] # x
    IN  SubSeq(seq, 1, i - 1) \o SubSeq(seq, i + 1, Len(seq))

\* ------------------------------------------------------------ handlers
\* What a handler reports: the operation, its outcome (the message it
\* prints), the id add_task assigned or mark_complete toggled (0 otherwise),
\* whether a title was stored and what was done with the due date ("none":
\* no text given, "unparsed": parse_date returned the empty text for it).
Report(op, result, id, title_set, due) ==
    [op |-> op, result |-> result, id |-> id, title_set |-> title_set, due |-> due]

\* A handler's effect: the task list, the file, the clock and the report.
Effect(tasks, f, n, out) == [tasks |-> tasks, file |-> f, now |-> n, out |-> out]

\* add_task, had it declined a due date that does not parse
add_task_strict(tasks, f, n, title_in, due_in) ==
    LET title == strip(title_in)
        due_date == parse_date(due_in)
    IN  IF title = <<>> \/ (strip(due_in) # <<>> /\ due_date = <<>>)
        THEN Effect(tasks, f, n, Report("add", "empty_title", 0, FALSE, "none"))
        ELSE LET new_task == [id |-> generate_id(tasks),
                              title |-> title,
                              due_date |-> due_date,
                              completed |-> FALSE,
                              created_at |-> datetime_isoformat(datetime_now(n))]
                 appended == Append(tasks, new_task)
             IN  Effect(appended, save_tasks(appended), n + 1,
                        Report("add", "ok", new_task.id, TRUE,
                               IF due_date # <<>> THEN "set" ELSE "none"))

\* add_task from new_task on: the title is not empty, due_date is parsed
add_task_new(tasks, n, title, due_in, due_date) ==
    LET new_task == [id |-> generate_id(tasks),
                     title |-> title,
                     due_date |-> due_date,
                     completed |-> FALSE,
                     created_at |-> datetime_isoformat(datetime_now(n))]
        appended == Append(tasks, new_task)
    IN  Effect(appended, save_tasks(appended), n + 1,
               Report("add", "ok", new_task.id, TRUE,
                      IF due_date # <<>> THEN "set"
                      ELSE IF strip(due_in) = <<>> THEN "none"
                      ELSE "unparsed"))

\* add_task(tasks), with the two input() answers
add_task(tasks, f, n, title_in, due_in) ==
    LET title == strip(title_in)
    IN  IF title = <<>>
        THEN Effect(tasks, f, n, Report("add", "empty_title", 0, FALSE, "none"))
        ELSE add_task_new(tasks, n, title, due_in, parse_date(due_in))

\* mark_complete, had it left out save_tasks
mark_complete_unsaved(tasks, f, n, id_in) ==
    LET task_id == py_int(id_in)
    IN  IF task_id.error # "none"
        THEN Effect(tasks, f, n, Report("toggle", "invalid_id", 0, FALSE, "none"))
        ELSE LET i == find_task_by_id(tasks, task_id.value)
             IN  IF i = 0
                 THEN Effect(tasks, f, n,
                             Report("toggle", "not_found", 0, FALSE, "none"))
                 ELSE LET toggled == [tasks EXCEPT ![i].completed = ~tasks[i].completed]
                      IN  Effect(toggled, f, n,
                                 Report("toggle", "ok", task_id.value, FALSE, "none"))

\* mark_complete, had it set the flag instead of flipping it
mark_complete_set(tasks, f, n, id_in) ==
    LET task_id == py_int(id_in)
    IN  IF task_id.error # "none"
        THEN Effect(tasks, f, n, Report("toggle", "invalid_id", 0, FALSE, "none"))
        ELSE LET i == find_task_by_id(tasks, task_id.value)
             IN  IF i = 0
                 THEN Effect(tasks, f, n,
                             Report("toggle", "not_found", 0, FALSE, "none"))
                 ELSE LET toggled == [tasks EXCEPT ![i].completed = TRUE]
                      IN  Effect(toggled, save_tasks(toggled), n,
                                 Report("toggle", "ok", task_id.value, FALSE, "none"))

\* mark_complete, had it flipped the flag of every task
mark_complete_all(tasks, f, n, id_in) ==
    LET task_id == py_int(id_in)
    IN  IF task_id.error # "none"
        THEN Effect(tasks, f, n, Report("toggle", "invalid_id", 0, FALSE, "none"))
        ELSE LET i == find_task_by_id(tasks, task_id.value)
             IN  IF i = 0
                 THEN Effect(tasks, f, n,
                             Report("toggle", "not_found", 0, FALSE, "none"))
                 ELSE LET toggled == [j \in 1..Len(tasks) |->
                                         [tasks[j] EXCEPT !.completed = ~tasks[j].completed]]
                      IN  Effect(toggled, save_tasks(toggled), n,
                                 Report("toggle", "ok", task_id.value, FALSE, "none"))

\* mark_complete(tasks), with the input() answer
mark_complete(tasks, f, n, id_in) ==
    LET task_id == py_int(id_in)
    IN  IF task_id.error # "none"
        THEN Effect(tasks, f, n, Report("toggle", "invalid_id", 0, FALSE, "none"))
        ELSE LET i == find_task_by_id(tasks, task_id.value)
             IN  IF i = 0
                 THEN Effect(tasks, f, n,
                             Report("toggle", "not_found", 0, FALSE, "none"))
                 ELSE LET toggled == [tasks EXCEPT ![i].completed = ~tasks[i].completed]
                      IN  Effect(toggled, save_tasks(toggled), n,
                                 Report("toggle", "ok", task_id.value, FALSE, "none"))

\* delete_task(tasks), with the input() answer
delete_task(tasks, f, n, id_in) ==
    LET task_id == py_int(id_in)
    IN  IF task_id.error # "none"
        THEN Effect(tasks, f, n, Report("delete", "invalid_id", 0, FALSE, "none"))
        ELSE LET i == find_task_by_id(tasks, task_id.value)
             IN  IF i = 0
                 THEN Effect(tasks, f, n,
                             Report("delete", "not_found", 0, FALSE, "none"))
                 ELSE LET removed == list_remove(tasks, tasks[i])
                      IN  Effect(removed, save_tasks(removed), n,
                                 Report("delete", "ok", 0, FALSE, "none"))

\* edit_task, had it stored the new title without testing it
edit_task_untested(tasks, f, n, id_in, title_in, due_in) ==
    LET task_id == py_int(id_in)
    IN  IF task_id.error # "none"
        THEN Effect(tasks, f, n, Report("edit", "invalid_id", 0, FALSE, "none"))
        ELSE LET i == find_task_by_id(tasks, task_id.value)
             IN  IF i = 0
                 THEN Effect(tasks, f, n,
                             Report("edit", "not_found", 0, FALSE, "none"))
                 ELSE LET new_title == strip(title_in)
                          retitled == [tasks EXCEPT ![i].title = new_title]
                          new_due == strip(due_in)
                          parsed == parse_date(new_due)
                          due == IF lower(new_due) = <<"c", "l", "e", "a", "r">> THEN "cleared"
                                 ELSE IF new_due = <<>> THEN "kept"
                                 ELSE IF parsed # <<>> THEN "set"
                                 ELSE "unparsed"
                          edited == IF due = "cleared"
                                    THEN [retitled EXCEPT ![i].due_date = <<>>]
                                    ELSE IF due = "set"
                                    THEN [retitled EXCEPT ![i].due_date = parsed]
                                    ELSE retitled
                      IN  Effect(edited, save_tasks(edited), n,
                                 Report("edit", "ok", 0, new_title # <<>>, due))

\* edit_task, had it returned at the parse failure, before save_tasks
edit_task_parse_first(tasks, f, n, id_in, title_in, due_in) ==
    LET task_id == py_int(id_in)
    IN  IF task_id.error # "none"
        THEN Effect(tasks, f, n, Report("edit", "invalid_id", 0, FALSE, "none"))
        ELSE LET i == find_task_by_id(tasks, task_id.value)
             IN  IF i = 0
                 THEN Effect(tasks, f, n,
                             Report("edit", "not_found", 0, FALSE, "none"))
                 ELSE LET new_title == strip(title_in)
                          retitled == IF new_title # <<>>
                                      THEN [tasks EXCEPT ![i].title = new_title]
                                      ELSE tasks
                          new_due == strip(due_in)
                          parsed == parse_date(new_due)
                          due == IF lower(new_due) = <<"c", "l", "e", "a", "r">> THEN "cleared"
                                 ELSE IF new_due = <<>> THEN "kept"
                                 ELSE IF parsed # <<>> THEN "set"
                                 ELSE "unparsed"
                          edited == IF due = "cleared"
                                    THEN [retitled EXCEPT ![i].due_date = <<>>]
                                    ELSE IF due = "set"
                                    THEN [retitled EXCEPT ![i].due_date = parsed]
                                    ELSE retitled
                      IN  IF due = "unparsed"
                          THEN Effect(edited, f, n,
                                      Report("edit", "ok", 0, new_title # <<>>, due))
                          ELSE Effect(edited, save_tasks(edited), n,
                                      Report("edit", "ok", 0, new_title # <<>>, due))

\* edit_task from the prompts on: task i was found, new_title and new_due
\* are the stripped answers, parsed is parse_date(new_due)
edit_task_found(tasks, n, i, new_title, new_due, parsed) ==
    LET retitled == IF new_title # <<>>
                    THEN [tasks EXCEPT ![i].title = new_title]
                    ELSE tasks
        due == IF lower(new_due) = <<"c", "l", "e", "a", "r">> THEN "cleared"
               ELSE IF new_due = <<>> THEN "kept"
               ELSE IF parsed # <<>> THEN "set"
               ELSE "unparsed"
        edited == IF due = "cleared"
                  THEN [retitled EXCEPT ![i].due_date = <<>>]
                  ELSE IF due = "set"
                  THEN [retitled EXCEPT ![i].due_date = parsed]
                  ELSE retitled
    IN  Effect(edited, save_tasks(edited), n,
               Report("edit", "ok", 0, new_title # <<>>, due))

\* edit_task(tasks), with the three input() answers
edit_task(tasks, f, n, id_in, title_in, due_in) ==
    LET task_id == py_int(id_in)
    IN  IF task_id.error # "none"
        THEN Effect(tasks, f, n, Report("edit", "invalid_id", 0, FALSE, "none"))
        ELSE LET i == find_task_by_id(tasks, task_id.value)
             IN  IF i = 0
                 THEN Effect(tasks, f, n,
                             Report("edit", "not_found", 0, FALSE, "none"))
                 ELSE edit_task_found(tasks, n, i, strip(title_in), strip(due_in),
                                      parse_date(strip(due_in)))

\* a < b on dates, had it been a <= b
DateLess_inclusive(a, b) ==
    \/ a.y < b.y
    \/ a.y = b.y /\ a.m < b.m
    \/ a.y = b.y /\ a.m = b.m /\ a.d <= b.d

\* a < b on dates
DateLess(a, b) ==
    \/ a.y < b.y
    \/ a.y = b.y /\ a.m < b.m
    \/ a.y = b.y /\ a.m = b.m /\ a.d < b.d

\* the test show_tasks applies to one task under filter_by
Selected(task, filter_by, today) ==
    IF filter_by \in {"None", "all"} THEN TRUE
    ELSE IF filter_by = "completed" /\ task.completed THEN TRUE
    ELSE IF filter_by = "incomplete" /\ ~task.completed THEN TRUE
    ELSE IF filter_by = "due_today" THEN
        /\ task.due_date # <<>>
        /\ LET dt == fromisoformat(task.due_date)
           IN  dt.error = "none" /\ dt.value = today
    ELSE IF filter_by = "overdue" THEN
        /\ task.due_date # <<>> /\ ~task.completed
        /\ LET dt == fromisoformat(task.due_date)
           IN  dt.error = "none" /\ DateLess(dt.value, today)
    ELSE FALSE

RECURSIVE filter_tasks(_, _, _)
filter_tasks(tasks, filter_by, today) ==
    IF tasks = <<>> THEN <<>>
    ELSE (IF Selected(Head(tasks), filter_by, today) THEN <<Head(tasks)>> ELSE <<>>)
         \o filter_tasks(Tail(tasks), filter_by, today)

\* the list show_tasks prints under filter_by: none when there is no task
shown_tasks(tasks, n, filter_by) ==
    IF tasks = <<>> THEN <<>>
    ELSE filter_tasks(tasks, filter_by, datetime_now(n).date)

\* show_tasks, had it filtered the list in place
show_tasks_in_place(tasks, f, n, filter_by) ==
    IF tasks = <<>>
    THEN Effect(tasks, f, n, Report("show", "no_tasks", 0, FALSE, "none"))
    ELSE LET filtered == filter_tasks(tasks, filter_by, datetime_now(n).date)
         IN  Effect(filtered, f, n,
                    Report("show", IF filtered = <<>> THEN "no_match" ELSE "ok",
                           0, FALSE, "none"))

\* show_tasks(tasks, filter_by)
show_tasks(tasks, f, n, filter_by) ==
    IF tasks = <<>>
    THEN Effect(tasks, f, n, Report("show", "no_tasks", 0, FALSE, "none"))
    ELSE LET filtered == filter_tasks(tasks, filter_by, datetime_now(n).date)
         IN  Effect(tasks, f, n,
                    Report("show", IF filtered = <<>> THEN "no_match" ELSE "ok",
                           0, FALSE, "none"))

\* --------------------------------------------------------------- inputs
\* the answers typed at the title prompt of add_task
TitleInputs == {
    <<" ">>,    \* ' '
    <<"a">>     \* 'a'
    }

\* the answers typed at the title prompt of edit_task
NewTitleInputs == {
    <<" ">>,              \* ' '
    <<" ", "a", " ">>     \* ' a '
    }

\* the answers typed at the due-date prompts
DueInputs == {
    <<>>,    \* ''
    <<"1", "2", "/", "1", "1", "/", "2", "0", "2", "5">>,    \* '12/11/2025'
    <<"n", "o", "t", " ", "a", " ", "d", "a", "t", "e">>,    \* 'not a date'
    <<" ", "C", "l", "e", "a", "r">>     \* ' Clear'
    }

\* the answers typed at the id prompts: every id the session can meet
\* (the first one typed after a blank) and a text that is no number
IdInputs ==
    {<<" ", "1">>, <<"x">>} \cup {<<Digits[i + 1]>> : i \in 2..(MaxClock + 1)}

\* the filters main() passes to show_tasks (menu choices 1 to 5)
FilterChoices == {"all", "incomplete", "completed", "due_today", "overdue"}

\* the files the program may find at start: none, an empty or corrupted
\* one, and the files of earlier runs that ended with no task and with one
SavedTasks ==
    << [id |-> 1, title |-> <<"a">>, due_date |-> <<>>, completed |-> FALSE,
        created_at |-> datetime_isoformat([date |-> [y |-> 2025, m |-> 11, d |-> 10],
                                           hour |-> 9])] >>
InitFiles == {Absent, Undecodable, save_tasks(<<>>), save_tasks(SavedTasks)}

\* ---------------------------------------------------------------- state
VARIABLES
    tasks,      \* main()'s task list
    file,       \* the content of FILENAME
    now,        \* the number of clock readings that stamped a task
    last,       \* the report of the last handler that ran
    assigned,   \* every id a task of this session has held
    toggles,    \* the states before the trailing run of toggles of one id
    call        \* a function called on its own: its argument and its result

vars == <<tasks, file, now, last, assigned, toggles, call>>

\* no function has been called on its own
NoCall == [fn |-> "none"]

Ids(ts) == {get_id(ts[i]) : i \in 1..Len(ts)}

\* main() up to the menu loop: tasks = load_tasks()
Init ==
    /\ file \in InitFiles
    /\ tasks = load_tasks(file)
    /\ now = 0
    /\ last = Report("load", "ok", 0, FALSE, "none")
    /\ assigned = Ids(load_tasks(file))
    /\ toggles = <<>>
    /\ call = NoCall

\* the handler's effect becomes the next state
Apply(r) ==
    /\ tasks' = r.tasks
    /\ file' = r.file
    /\ now' = r.now
    /\ last' = r.out
    /\ assigned' = assigned \cup Ids(r.tasks)
    /\ toggles' =
         IF r.out.op = "toggle" /\ r.out.result = "ok"
         THEN LET snap == [id |-> r.out.id, tasks |-> tasks, file |-> file]
              IN  IF toggles # <<>> /\ toggles[Len(toggles)].id = r.out.id
                  THEN <<toggles[Len(toggles)], snap>>
                  ELSE <<snap>>
         ELSE <<>>
    /\ call' = call

\* menu choices 1 to 5
ShowTasks ==
    \E filter_by \in FilterChoices : Apply(show_tasks(tasks, file, now, filter_by))

\* menu choice 6
AddTask ==
    /\ Len(tasks) < MaxTasks
    /\ now < MaxClock
    /\ \E title_in \in TitleInputs, due_in \in DueInputs :
          Apply(add_task(tasks, file, now, title_in, due_in))

\* menu choice 7
EditTask ==
    \E id_in \in IdInputs, title_in \in NewTitleInputs, due_in \in DueInputs :
        Apply(edit_task(tasks, file, now, id_in, title_in, due_in))

\* menu choice 8
MarkComplete ==
    \E id_in \in IdInputs : Apply(mark_complete(tasks, file, now, id_in))

\* menu choice 9
DeleteTask ==
    \E id_in \in IdInputs : Apply(delete_task(tasks, file, now, id_in))

\* the menu loop of main(); choice 0 ends the behaviour
Next == ShowTasks \/ AddTask \/ EditTask \/ MarkComplete \/ DeleteTask

Spec == Init /\ [][Next]_vars

\* ------------------------------------------- generate_id on its own
MaxListLen == 3      \* tasks in a collection handed to generate_id
MaxListId == 5       \* largest id in such a collection

\* collections with pairwise distinct positive ids, in any order
IdLists ==
    {s \in UNION {[1..k -> 1..MaxListId] : k \in 0..MaxListLen} :
        \A i, j \in DOMAIN s : i # j => s[i] # s[j]}

TaskWithId(k) ==
    [id |-> k, title |-> <<"a">>, due_date |-> <<>>, completed |-> FALSE,
     created_at |-> datetime_isoformat(datetime_now(0))]

InitIds ==
    /\ tasks \in {[i \in DOMAIN s |-> TaskWithId(s[i])] : s \in IdLists}
    /\ file = save_tasks(tasks)
    /\ now = 0
    /\ last = Report("load", "ok", 0, FALSE, "none")
    /\ assigned = Ids(tasks)
    /\ toggles = <<>>
    /\ call = NoCall

\* a call of generate_id(tasks); the report carries the id it returns
GenerateId ==
    /\ last.op = "load"
    /\ last' = Report("generate_id", "ok", generate_id(tasks), FALSE, "none")
    /\ UNCHANGED <<tasks, file, now, assigned, toggles, call>>

NextIds == GenerateId

SpecIds == InitIds /\ [][NextIds]_vars

\* -------------------------------------------- show_tasks on its own
MaxShown == 2        \* tasks in a collection handed to show_tasks

\* the due dates of such tasks: none, the day before the first clock
\* reading and the two days after it, and a text that names no day
ShownDues ==
    {<<>>, <<"2", "0", "2", "5", "-", "0", "2", "-", "3", "0">>}
        \cup {isoformat(AddDays(FirstDay, k)) : k \in 0..1}
        \cup {isoformat([FirstDay EXCEPT !.d = FirstDay.d - 1])}

ShownTask(k, due_date, completed) ==
    [id |-> k, title |-> <<"a">>, due_date |-> due_date, completed |-> completed,
     created_at |-> datetime_isoformat(datetime_now(0))]

\* every collection of up to MaxShown such tasks, with ids 1, 2, ...
ShownLists ==
    UNION {[1..k -> ShownDues \X BOOLEAN] : k \in 0..MaxShown}

ShownCollections ==
    {[i \in DOMAIN s |-> ShownTask(i, s[i][1], s[i][2])] : s \in ShownLists}

\* show_tasks is called on the first day or on the next
InitShow ==
    /\ tasks \in ShownCollections
    /\ file = save_tasks(tasks)
    /\ now \in {0, TicksPerDay}
    /\ last = Report("load", "ok", 0, FALSE, "none")
    /\ assigned = Ids(tasks)
    /\ toggles = <<>>
    /\ call = NoCall

\* a call of show_tasks(tasks, filter_by), filter_by left out or given
ShowCall ==
    /\ call = NoCall
    /\ \E filter_by \in FilterChoices \cup {"None"} :
          LET r == show_tasks(tasks, file, now, filter_by)
          IN  /\ tasks' = r.tasks
              /\ file' = r.file
              /\ now' = r.now
              /\ last' = r.out
              /\ call' = [fn |-> "show_tasks", arg |-> filter_by,
                           ret |-> shown_tasks(tasks, now, filter_by)]
    /\ UNCHANGED <<assigned, toggles>>

NextShow == ShowCall

SpecShow == InitShow /\ [][NextShow]_vars

\* -------------------------------------------- load_tasks on its own
\* well-formed JSON that is no list of task records: 42, "a", {"id": 1}
\* and [1, 2]
OtherDocs == {
    JNum(42),
    JStr(<<"a">>),
    [t |-> "object", v |-> << <<"id", JNum(1)>> >>],
    [t |-> "array", v |-> <<JNum(1), JNum(2)>>]
    }

\* the files load_tasks may find: none, one it cannot read, an empty or
\* malformed one, well-formed ones of another shape, and saved collections
LoadFiles ==
    {Absent, Unreadable, Undecodable}
        \cup {Text(doc) : doc \in OtherDocs}
        \cup {save_tasks(ts) : ts \in ShownCollections}

InitLoad ==
    /\ file \in LoadFiles
    /\ tasks = <<>>
    /\ now = 0
    /\ last = Report("start", "ok", 0, FALSE, "none")
    /\ assigned = {}
    /\ toggles = <<>>
    /\ call = NoCall

\* a call of load_tasks()
LoadCall ==
    /\ call = NoCall
    /\ call' = [fn |-> "load_tasks", type |-> load_tasks_type(file),
                 ret |-> load_tasks(file)]
    /\ UNCHANGED <<tasks, file, now, last, assigned, toggles>>

NextLoad == LoadCall

SpecLoad == InitLoad /\ [][NextLoad]_vars

\* -------------------------------------------- parse_date on its own
SampleYears == 2     \* years from 2024 on from which sample dates are drawn

\* the dates handed to parse_date: the first and last day of the calendar
\* and, in each sample year, days of every month up to the longest one
SampleDates ==
    {[y |-> 1, m |-> 1, d |-> 1], [y |-> 9999, m |-> 12, d |-> 31]}
        \cup {dt \in [y : 2024..(2023 + SampleYears), m : 1..12,
                       d : {1, 9, 12, 28, 29, 30, 31}] : ValidDate(dt.y, dt.m, dt.d)}

\* a month name as it is written: the first letter in upper case
Capitalized(name) ==
    <<UpperCase[CHOOSE i \in 1..26 : LowerCase[i] = name[1]]>> \o Tail(name)

\* a date written in the k-th of the formats of parse_date
Written(dt, k) ==
    LET YYYY == ZeroPad(dt.y, 4)
        MM == ZeroPad(dt.m, 2)
        DD == ZeroPad(dt.d, 2)
        Mon == Capitalized(a_month[dt.m])
        Month == Capitalized(f_month[dt.m])
    IN  IF k = 1 THEN YYYY \o <<"-">> \o MM \o <<"-">> \o DD
        ELSE IF k = 2 THEN DD \o <<"/">> \o MM \o <<"/">> \o YYYY
        ELSE IF k = 3 THEN DD \o <<"-">> \o MM \o <<"-">> \o YYYY
        ELSE IF k = 4 THEN Mon \o <<" ">> \o DD \o <<" ">> \o YYYY
        ELSE IF k = 5 THEN Month \o <<" ">> \o DD \o <<" ">> \o YYYY
        ELSE IF k = 6 THEN DD \o <<" ">> \o Mon \o <<" ">> \o YYYY
        ELSE DD \o <<" ">> \o Month \o <<" ">> \o YYYY

\* texts with nothing but blanks in them
BlankDates == {<<>>, <<" ">>, <<" ", " ", " ">>}

\* texts that are not blank and match no format
UnparsedDates == {
    <<"n", "o", "t", " ", "a", " ", "d", "a", "t", "e">>,    \* 'not a date'
    <<"3", "1", "/", "0", "2", "/", "2", "0", "2", "5">>,    \* '31/02/2025'
    <<"2", "9", "/", "0", "2", "/", "2", "0", "2", "5">>,    \* '29/02/2025'
    <<"1", "2", ".", "1", "1", ".", "2", "0", "2", "5">>,    \* '12.11.2025'
    <<"2", "0", "2", "5", "/", "1", "1", "/", "1", "2">>,    \* '2025/11/12'
    <<"2", "0", "2", "5", "-", "1", "3", "-", "0", "1">>,    \* '2025-13-01'
    <<"1", "2", "/", "1", "1", "/", "2", "5">>,    \* '12/11/25'
    <<"N", "o", "v", " ", "3", "1", " ", "2", "0", "2", "5">>,    \* 'Nov 31 2025'
    <<"1", "2", " ", "N", "o", "v">>,    \* '12 Nov'
    <<"c", "l", "e", "a", "r">>    \* 'clear'
    }

\* a call of parse_date that is still to be made: the text, what kind of
\* text it is, and for a written date the date and the format
Pending(kind, date_str, dt, k) ==
    [fn |-> "parse_date", done |-> FALSE, kind |-> kind, arg |-> date_str,
     date |-> dt, format |-> k, ret |-> <<>>]

InitDates ==
    /\ tasks = <<>>
    /\ file = Absent
    /\ now = 0
    /\ last = Report("start", "ok", 0, FALSE, "none")
    /\ assigned = {}
    /\ toggles = <<>>
    /\ call \in {Pending("date", Written(dt, k), dt, k) :
                     dt \in SampleDates, k \in 1..Len(Formats)}
               \cup {Pending("blank", date_str, FirstDay, 0) : date_str \in BlankDates}
               \cup {Pending("unparsed", date_str, FirstDay, 0) : date_str \in UnparsedDates}

\* the call of parse_date(date_str)
ParseDateCall ==
    /\ call.fn = "parse_date" /\ ~call.done
    /\ call' = [call EXCEPT !.done = TRUE, !.ret = parse_date(call.arg)]
    /\ UNCHANGED <<tasks, file, now, last, assigned, toggles>>

NextDates == ParseDateCall

SpecDates == InitDates /\ [][NextDates]_vars

\* ---------------------------------------------------------- properties
AddedOk == last.op = "add" /\ last.result = "ok"
Blank(text) == \A i \in 1..Len(text) : text[i] = " "
BlankTexts == {<<>>, <<" ", " ">>}
\* the id of a task as it is typed
IdText(k) == <<Digits[k + 1]>>
PresentIds == {k \in 1..9 : \E i \in 1..Len(tasks) : tasks[i].id = k}
AbsentIds == (0..(MaxClock + 2)) \ PresentIds
Position(k) == CHOOSE i \in 1..Len(tasks) : tasks[i].id = k
Persisted(ts, f) == f.kind = "text" /\ json_load(f.doc) = ts
SetMax(S) == CHOOSE m \in S : \A k \in S : k <= m

\* C1: all ids in the collection are pairwise distinct, and a task that
\* add_task has just created sits at the end with an id that is positive and
\* differs from the id of every task that was there before it.
C1_FreshIds ==
    /\ \A i, j \in 1..Len(tasks) : i # j => tasks[i].id # tasks[j].id
    /\ AddedOk =>
          /\ last.id > 0
          /\ tasks[Len(tasks)].id = last.id
          /\ \A i \in 1..(Len(tasks) - 1) : tasks[i].id # last.id

C1_Witness ==
    AddedOk /\ Len(tasks) = 2 /\ tasks[1].id = 2 /\ tasks[2].id = 3

\* C2 as stated: an id that was once assigned, even to a task since deleted,
\* is never assigned by add_task again.
C2_NeverReused ==
    [][now' # now => last'.id \notin assigned]_vars

\* C2 amended: add_task assigns an id that was assigned before only when
\* that id is larger than the id of every task then in the collection; an
\* id at or below the largest present id is never assigned again.
C2_ReuseOnlyAboveMax ==
    [][now' # now =>
          /\ last'.id \notin Ids(tasks)
          /\ last'.id \in assigned => \A k \in Ids(tasks) : k < last'.id]_vars

C2_Witness ==
    AddedOk /\ 1 \in assigned /\ Ids(tasks) = {2, 3}

\* C3: generate_id returns 1 for an empty collection and otherwise one more
\* than the largest id present, whatever the order of the tasks and the gaps.
C3_NextId ==
    last.op = "generate_id" =>
        last.id = IF tasks = <<>> THEN 1 ELSE SetMax(Ids(tasks)) + 1

C3_Witness ==
    /\ last.op = "generate_id" /\ last.id = 6
    /\ Len(tasks) = 3 /\ tasks[1].id = 5 /\ tasks[2].id = 1 /\ tasks[3].id = 3

\* C4: when add, edit, toggle or delete has just succeeded the file holds
\* exactly the in-memory collection, and it goes on doing so through every
\* declined operation and every listing that follows: from the first
\* successful mutation on (the first task ever created), file and list agree.
C4_PersistedAfterMutation ==
    (assigned # {} \/ (last.op \in {"add", "edit", "toggle", "delete"} /\ last.result = "ok"))
        => Persisted(tasks, file)

C4_Witness ==
    /\ last.op = "edit" /\ last.result = "ok" /\ last.due = "unparsed"
    /\ Len(tasks) = 2 /\ Persisted(tasks, file)

\* C5: toggle, delete and edit given an id that no task has report not-found
\* and change neither the collection nor the file.
C5_NotFoundNoChange ==
    \A k \in AbsentIds :
        /\ mark_complete(tasks, file, now, IdText(k))
              = Effect(tasks, file, now, Report("toggle", "not_found", 0, FALSE, "none"))
        /\ delete_task(tasks, file, now, IdText(k))
              = Effect(tasks, file, now, Report("delete", "not_found", 0, FALSE, "none"))
        /\ \A title_in \in NewTitleInputs, due_in \in DueInputs :
              edit_task(tasks, file, now, IdText(k), title_in, due_in)
                 = Effect(tasks, file, now, Report("edit", "not_found", 0, FALSE, "none"))

C5_Witness ==
    last.op = "delete" /\ last.result = "not_found" /\ Len(tasks) = 2

\* C6: add_task with a title that is blank after trimming is declined: the
\* collection, the file, the clock and the next id stay as they were,
\* whatever the due-date text.
C6_BlankTitleDeclined ==
    \A title_in \in BlankTexts, due_in \in DueInputs :
        LET r == add_task(tasks, file, now, title_in, due_in)
        IN  /\ r.out.result = "empty_title"
            /\ r.tasks = tasks /\ r.file = file /\ r.now = now
            /\ generate_id(r.tasks) = generate_id(tasks)

C6_Witness ==
    last.op = "add" /\ last.result = "empty_title" /\ Len(tasks) = 1

\* C7: every task in the collection has a non-empty title.
C7_TitlesNonEmpty ==
    \A i \in 1..Len(tasks) : tasks[i].title # <<>>

C7_Witness ==
    /\ last.op = "edit" /\ last.result = "ok" /\ ~last.title_set
    /\ Len(tasks) = 2 /\ tasks[2].completed

\* C8: two successive toggles of the same existing id leave the collection
\* and the file as they were before the first, the flag included.
C8_ToggleTwice ==
    Len(toggles) = 2 =>
        /\ tasks = toggles[1].tasks
        /\ file = toggles[1].file
        /\ tasks[Position(last.id)].completed
              = toggles[1].tasks[Position(toggles[1].id)].completed

C8_Witness ==
    Len(toggles) = 2 /\ Len(tasks) = 2 /\ tasks[2].id = last.id /\ tasks[2].completed

\* C9: edit_task on an existing id with a blank title and a blank due date
\* leaves that task and every other task, and their order, unchanged.
C9_BlankEditNoChange ==
    \A k \in PresentIds, title_in \in BlankTexts, due_in \in BlankTexts :
        LET r == edit_task(tasks, file, now, IdText(k), title_in, due_in)
        IN  r.out.result = "ok" /\ r.tasks = tasks

C9_Witness ==
    /\ last.op = "edit" /\ last.result = "ok" /\ ~last.title_set /\ last.due = "kept"
    /\ Len(tasks) = 2 /\ tasks[1].due_date # <<>> /\ tasks[2].completed

\* C10: edit_task on an existing id with the due-date text clear, in any
\* letter case, makes that task's due date absent whatever it was, saves the
\* collection, and changes the title only when a non-blank one was typed.
ClearWords == {<<"c", "l", "e", "a", "r">>, <<"C", "L", "E", "A", "R">>,
               <<"c", "L", "e", "A", "r">>}
C10_ClearRemovesDueDate ==
    \A k \in PresentIds, title_in \in NewTitleInputs, due_in \in ClearWords :
        LET r == edit_task(tasks, file, now, IdText(k), title_in, due_in)
            i == Position(k)
        IN  /\ r.out.result = "ok"
            /\ r.tasks[i].due_date = <<>>
            /\ Persisted(r.tasks, r.file)
            /\ Blank(title_in) => r.tasks[i].title = tasks[i].title

C10_Witness ==
    /\ last.op = "edit" /\ last.result = "ok" /\ last.due = "cleared" /\ ~last.title_set
    /\ Len(tasks) = 1 /\ tasks[1].due_date = <<>> /\ tasks[1].completed

\* due-date texts that match no accepted format: words, and a day that
\* the month does not have
UnparsedTexts == {
    <<"n", "o", "t", " ", "a", " ", "d", "a", "t", "e">>,    \* 'not a date'
    <<"3", "1", "/", "0", "2", "/", "2", "0", "2", "5">>     \* '31/02/2025'
    }
\* a title to replace "a" with, typed with blanks around it
OtherTitle == <<" ", "b", "c", " ">>

\* C11: edit_task on an existing id with a due-date text that is neither
\* blank nor clear and cannot be parsed keeps the task's due date, reports
\* the parse failure, and still stores and saves the new non-blank title.
UnparsedDueKept(r, i) ==
    /\ r.out.result = "ok" /\ r.out.due = "unparsed" /\ r.out.title_set
    /\ r.tasks[i].due_date = tasks[i].due_date
    /\ r.tasks[i].title = <<"b", "c">>
    /\ Persisted(r.tasks, r.file)

C11_UnparsedDueKept ==
    \A k \in PresentIds, due_in \in UnparsedTexts :
        UnparsedDueKept(edit_task(tasks, file, now, IdText(k), OtherTitle, due_in),
                        Position(k))

C11_Witness ==
    /\ last.op = "edit" /\ last.result = "ok" /\ last.due = "unparsed" /\ last.title_set
    /\ Len(tasks) = 2 /\ tasks[1].due_date # <<>> /\ tasks[2].due_date = <<>>

\* C12: add_task with a non-empty title and a due-date text that cannot be
\* parsed appends a task with no due date, not completed, with the id
\* generate_id gives, after the tasks already there, and saves the collection.
UnparsedDueAdds(r) ==
    LET new == r.tasks[Len(r.tasks)]
    IN  /\ r.out.result = "ok"
        /\ Len(r.tasks) = Len(tasks) + 1
        /\ SubSeq(r.tasks, 1, Len(tasks)) = tasks
        /\ new.due_date = <<>> /\ new.completed = FALSE
        /\ new.id = generate_id(tasks) /\ new.title = <<"b", "c">>
        /\ Persisted(r.tasks, r.file)

C12_UnparsedDueAdds ==
    \A due_in \in UnparsedTexts :
        UnparsedDueAdds(add_task(tasks, file, now, OtherTitle, due_in))

C12_Witness ==
    /\ AddedOk /\ last.due = "unparsed"
    /\ Len(tasks) = 2 /\ tasks[2].due_date = <<>> /\ ~tasks[2].completed
    /\ tasks[1].due_date # <<>> /\ tasks[2].id = 3

\* a canonical date text: YYYY-MM-DD naming a day of the calendar
Canonical(text) ==
    /\ Len(text) = 10
    /\ \A i \in {1, 2, 3, 4, 6, 7, 9, 10} : text[i] \in {Digits[d] : d \in 1..10}
    /\ text[5] = "-" /\ text[8] = "-"
    /\ LET m == 10 * DigitVal(text[6]) + DigitVal(text[7])
           d == 10 * DigitVal(text[9]) + DigitVal(text[10])
       IN  m \in 1..12 /\ d \in 1..31

\* C13: whatever was typed at the due-date prompts of add and edit, every
\* task's due date is either absent or a canonical YYYY-MM-DD date.
C13_DueDatesCanonical ==
    \A i \in 1..Len(tasks) :
        tasks[i].due_date = <<>> \/ Canonical(tasks[i].due_date)

C13_Witness ==
    /\ last.op = "edit" /\ last.result = "ok" /\ last.due = "unparsed"
    /\ Len(tasks) = 2 /\ tasks[1].due_date = <<>>
    /\ tasks[2].due_date = <<"2", "0", "2", "5", "-", "1", "1", "-", "1", "2">>

\* the calendar around the first clock reading, day by day
Days == [k \in 1..4 |-> AddDays([FirstDay EXCEPT !.d = FirstDay.d - 1], k - 1)]
Today == datetime_now(now).date

\* the predicate of a filter kind
Matches(task, kind) ==
    IF kind \in {"None", "all"} THEN TRUE
    ELSE IF kind = "completed" THEN task.completed = TRUE
    ELSE IF kind = "incomplete" THEN task.completed = FALSE
    ELSE IF kind = "due_today" THEN
        task.due_date # <<>> /\ task.due_date = isoformat(Today)
    ELSE /\ kind = "overdue"
         /\ task.due_date # <<>>
         /\ task.completed = FALSE
         /\ \E j, k \in 1..4 :
               j < k /\ task.due_date = isoformat(Days[j]) /\ Today = Days[k]

\* C14: show_tasks selects exactly the tasks that satisfy the predicate of
\* the filter kind, in the order of the collection: every task for all or no
\* kind, the completed ones, the ones not completed, the ones due today
\* (completed or not), the ones not completed and due before today; a due
\* date that names no day is neither due today nor overdue.
C14_FilterSelects ==
    call.fn = "show_tasks" =>
        LET Test(task) == Matches(task, call.arg)
        IN  call.ret = SelectSeq(tasks, Test)

C14_Witness ==
    /\ call.fn = "show_tasks" /\ call.arg = "overdue" /\ now = TicksPerDay
    /\ Len(tasks) = 2 /\ call.ret = <<tasks[2]>>
    /\ tasks[1].due_date = <<"2", "0", "2", "5", "-", "0", "2", "-", "3", "0">>
    /\ ~tasks[1].completed
    /\ tasks[2].due_date = isoformat(FirstDay)

\* C15: show_tasks, whatever the filter, leaves the collection (every
\* field of every task, and the order) and the file as they were.
C15_ShowReadOnly ==
    [][last'.op = "show" => tasks' = tasks /\ file' = file]_vars

C15_Witness ==
    /\ last.op = "show" /\ last.result = "no_match"
    /\ Len(tasks) = 2 /\ tasks[1].due_date # <<>> /\ Persisted(tasks, file)

\* the collection a file holds, when it holds a saved collection
StoredIn(f) ==
    IF \E ts \in ShownCollections : f = save_tasks(ts)
    THEN CHOOSE ts \in ShownCollections : f = save_tasks(ts)
    ELSE <<>>

\* C16: load_tasks never fails; it returns the stored list when the file
\* holds a saved list of task records, and the empty list in every other
\* case (no file, a file that cannot be read, empty or malformed content,
\* well-formed content of another shape).
C16_LoadRecovers ==
    call.fn = "load_tasks" =>
        /\ call.type = "list"
        /\ call.ret = StoredIn(file)

\* C17: saving the collection and loading it again gives the same
\* collection: the same tasks in the same order with every field as it was,
\* an absent due date still absent.
C17_RoundTrip ==
    load_tasks(save_tasks(tasks)) = tasks

C17_Witness ==
    /\ last.op = "toggle" /\ last.result = "ok"
    /\ Len(tasks) = 2 /\ tasks[1].due_date = <<>> /\ tasks[1].completed
    /\ tasks[2].due_date # <<>> /\ ~tasks[2].completed
    /\ load_tasks(file) = tasks

Parsed == call.fn = "parse_date" /\ call.done

\* C18 as stated: parse_date gives "no date" (the empty text) for empty or
\* blank input, and for text that matches no format a result that differs
\* from "no date", so that the return value alone tells the two apart.
C18_UnparsedDistinct ==
    Parsed =>
        /\ call.kind = "blank" => call.ret = <<>>
        /\ call.kind = "unparsed" => call.ret # <<>>

\* C18 amended: parse_date has two results a caller can tell apart: the
\* empty text, for empty or blank input and for text that matches no format
\* alike, and a non-empty date text for text that matches a format.
C18_TwoOutcomes ==
    Parsed =>
        /\ call.kind \in {"blank", "unparsed"} => call.ret = <<>>
        /\ call.kind = "date" => call.ret # <<>>

C18_Witness ==
    /\ Parsed /\ call.kind = "unparsed" /\ call.ret = <<>>
    /\ call.arg = <<"2", "9", "/", "0", "2", "/", "2", "0", "2", "5">>

\* C19: a valid calendar date written in any of the seven formats is
\* returned by parse_date as the same text YYYY-MM-DD.
C19_SameCanonicalText ==
    (Parsed /\ call.kind = "date") =>
        call.ret = ZeroPad(call.date.y, 4) \o <<"-">> \o ZeroPad(call.date.m, 2)
                       \o <<"-">> \o ZeroPad(call.date.d, 2)

C19_Witness ==
    /\ Parsed /\ call.kind = "date" /\ call.format = 7
    /\ call.arg = <<"2", "9", " ", "F", "e", "b", "r", "u", "a", "r", "y", " ",
                    "2", "0", "2", "4">>
    /\ call.ret = <<"2", "0", "2", "4", "-", "0", "2", "-", "2", "9">>

\* answers to the two prompts of edit_task: a due date of every kind (blank,
\* clear, a date, no date), with a new title or a blank one
EditAnswers == {
    <<<<" ">>, <<>>>>,
    <<OtherTitle, <<"C", "l", "e", "a", "r">>>>,
    <<OtherTitle, <<"1", "3", " ", "D", "e", "c", " ", "2", "0", "2", "5">>>>,
    <<<<" ">>, <<"n", "o", "t", " ", "a", " ", "d", "a", "t", "e">>>>
    }

\* ts is as before in everything but, at most, the named fields of task i
SameBut(ts, before, i, fields) ==
    /\ Len(ts) = Len(before)
    /\ \A j \in 1..Len(before) :
          /\ DOMAIN ts[j] = DOMAIN before[j]
          /\ \A fld \in DOMAIN before[j] :
                (j # i \/ fld \notin fields) => ts[j][fld] = before[j][fld]

\* C20: a successful mark_complete changes the completed flag of the task
\* with the given id and nothing else; a successful edit_task changes at
\* most the title and the due date of that task. The id and created_at of
\* the target, every other task, the number of tasks and their order stay.
OnlyToggled(r, i) ==
    /\ r.out.result = "ok"
    /\ SameBut(r.tasks, tasks, i, {"completed"})
    /\ r.tasks[i].completed # tasks[i].completed

OnlyEdited(r, i) ==
    /\ r.out.result = "ok"
    /\ SameBut(r.tasks, tasks, i, {"title", "due_date"})

C20_OnlyTargetTouched ==
    \A k \in PresentIds :
        /\ OnlyToggled(mark_complete(tasks, file, now, IdText(k)), Position(k))
        /\ \A answers \in EditAnswers :
              OnlyEdited(edit_task(tasks, file, now, IdText(k), answers[1], answers[2]),
                         Position(k))

C20_Witness ==
    /\ last.op = "toggle" /\ last.result = "ok" /\ last.id = 3
    /\ Len(tasks) = 2 /\ tasks[2].id = 3 /\ tasks[2].completed /\ ~tasks[1].completed
    /\ tasks[1].due_date # <<>>

\* a collection in which every id occurs twice, as load_tasks returns it for
\* a file edited by hand: the tasks, then a copy of each with the flag turned
Twice(ts) ==
    ts \o [i \in 1..Len(ts) |-> [ts[i] EXCEPT !.completed = ~ts[i].completed]]

\* ts with the task at position i taken out
Without(ts, i) ==
    [j \in 1..(Len(ts) - 1) |-> IF j < i THEN ts[j] ELSE ts[j + 1]]

\* the position of the first task of ts with id k
FirstWithId(ts, k) ==
    CHOOSE i \in 1..Len(ts) :
        ts[i].id = k /\ \A j \in 1..(i - 1) : ts[j].id # k

\* r is what add_task made of ts: one task more, at the end
AddedAtEnd(r, ts) ==
    /\ r.out.result = "ok"
    /\ Len(r.tasks) = Len(ts) + 1
    /\ \A j \in 1..Len(ts) : r.tasks[j] = ts[j]
    /\ r.tasks[Len(ts) + 1].id = r.out.id
    /\ r.tasks[Len(ts) + 1].title = strip(OtherTitle)

\* r is what delete_task made of ts when given id k: one task less, the
\* first with that id, the others as they were and in the same order
FirstRemoved(r, ts, k) ==
    /\ r.out.result = "ok"
    /\ Len(r.tasks) = Len(ts) - 1
    /\ r.tasks = Without(ts, FirstWithId(ts, k))

\* C21: the collection is in insertion order. A successful add_task puts
\* the new task at the end and leaves the earlier tasks in place (one task
\* more); a successful delete_task takes out exactly one task, the first
\* whose id matches, and leaves the others in their order (one task less),
\* also in a collection where an id occurs twice.
C21_InsertionOrder ==
    /\ \A due_in \in {<<>>, <<"1", "2", "/", "1", "1", "/", "2", "0", "2", "5">>} :
          AddedAtEnd(add_task(tasks, file, now, OtherTitle, due_in), tasks)
    /\ \A k \in PresentIds :
          /\ FirstRemoved(delete_task(tasks, file, now, IdText(k)), tasks, k)
          /\ FirstRemoved(delete_task(Twice(tasks), save_tasks(Twice(tasks)), now,
                                      IdText(k)),
                          Twice(tasks), k)

C21_Witness ==
    /\ last.op = "delete" /\ last.result = "ok"
    /\ Len(tasks) = 1 /\ tasks[1].id = 3 /\ 2 \in assigned

\* the id add_task assigns when it runs right after d, the effect of
\* delete_task
IdAfter(d) == add_task(d.tasks, d.file, d.now, OtherTitle, <<>>).out.id

\* C22 as stated: when the task with the highest id is deleted and a task is
\* added next, the new task gets the id of the deleted one; when another
\* task is deleted, the next add does not assign its id.
MaxIdReassigned(k, id) ==
    IF k = SetMax(Ids(tasks)) THEN id = k ELSE id # k

C22_MaxIdReassigned ==
    \A k \in PresentIds :
        MaxIdReassigned(k, IdAfter(delete_task(tasks, file, now, IdText(k))))

\* C22 amended: an add_task that runs directly after a successful
\* delete_task assigns one more than the highest id left, 1 when no task is
\* left. That is the id of the deleted task exactly when that task held the
\* highest id and either the id one below it is still held or the task was
\* the only one and had id 1; a deleted highest id with a gap below it, or of
\* an only task with an id above 1, is followed by a smaller new id, and the
\* id of a deleted task that did not hold the highest id by a larger one.
NextAfterDelete(k, d, id) ==
    /\ d.out.result = "ok"
    /\ id = IF d.tasks = <<>> THEN 1 ELSE SetMax(Ids(d.tasks)) + 1
    /\ id = k <=> /\ k = SetMax(Ids(tasks))
                  /\ IF Len(tasks) = 1 THEN k = 1 ELSE (k - 1) \in Ids(tasks)
    /\ IF k = SetMax(Ids(tasks)) THEN id <= k ELSE id > k

NextAfterDeleteOf(k, d) == NextAfterDelete(k, d, IdAfter(d))

C22_NextAfterDelete ==
    \A k \in PresentIds :
        NextAfterDeleteOf(k, delete_task(tasks, file, now, IdText(k)))

\* the task of the file is still first and the second add of the session
\* has assigned id 2 again
C22_Witness ==
    /\ AddedOk /\ last.id = 2 /\ now = 2
    /\ Len(tasks) = 2 /\ tasks[1] = SavedTasks[1] /\ tasks[2].id = 2

====
